---- MODULE Spec2Model ----
(***************************************************************************)
(* Parachute sizing: the QtPy GUI (parachute_gui.py) and the prompt-driven *)
(* script (parachute_area.py).                                             *)
(*                                                                         *)
(* Numbers.  A Python float is modelled as a decimal fixed-point number    *)
(* with five decimals: the integer n stands for n / K.  Every arithmetic   *)
(* operation rounds its exact result to the nearest representable value,   *)
(* ties to even, as the IEEE double operations do.  All the program's      *)
(* constants (10.7639, 39.3701, 3.28084) are representable exactly; pi is  *)
(* 3.14159.                                                                *)
(***************************************************************************)
EXTENDS Integers, Sequences, FiniteSets, TLC

VARIABLES
  call,              \* the function (or script run) invoked, with its arguments
  out,               \* what it returned, printed or raised
  pc,                \* "ready" before the call, "done" after it
  mode_combo,        \* ParachuteGUI.mode_combo.currentText()
  round_combo,       \* ParachuteGUI.round_combo.currentText()
  spin,              \* the value of every LabeledSpin of the window, by name
  shown,             \* what _sync_mode made visible / enabled
  warn_label,        \* ParachuteGUI.warn_label.text()
  table,             \* the rows of ParachuteGUI.table, top to bottom
  last               \* history: what the most recent _on_compute read and did

vars == <<call, out, pc, mode_combo, round_combo, spin, shown, warn_label, table, last>>
guiVars == <<mode_combo, round_combo, spin, shown, warn_label, table, last>>
callVars == <<call, out, pc>>

---------------------------------------------------------------------------
(* Float arithmetic *)

K == 10^5
NaN == -(2^30)                 \* encodes IEEE NaN (numpy's sqrt of a negative)

Abs(a) == IF a < 0 THEN -a ELSE a
Sgn(a) == IF a < 0 THEN -1 ELSE 1

\* <<q, r>> with a * b = q * c + r and 0 <= r < c, for a, b >= 0 and c > 0,
\* computed two bits of b at a time so that no intermediate exceeds 7 * c.
RECURSIVE MulDivQR(_, _, _)
MulDivQR(a, b, c) ==
  IF c <= 0 \/ a < 0 \/ b <= 0 THEN <<0, 0>>
  ELSE LET h == MulDivQR(a, b \div 4, c)
           t == 4 * h[2] + (b % 4) * (a % c)
       IN  <<4 * h[1] + (b % 4) * (a \div c) + t \div c, t % c>>

\* round half to even of q + r / c
HalfEven(q, r, c) == IF 2 * r > c \/ (2 * r = c /\ q % 2 = 1) THEN q + 1 ELSE q

\* a * b / c rounded to the nearest integer, ties to even
MulDiv(a, b, c) ==
  LET qr == MulDivQR(Abs(a), Abs(b), Abs(c))
  IN  Sgn(a) * Sgn(b) * Sgn(c) * HalfEven(qr[1], qr[2], Abs(c))

FMul(a, b) == MulDiv(a, b, K)            \* a * b
FDiv(a, b) == MulDiv(a, K, b)            \* a / b, b # 0

\* Newton's iteration from above: the floor of the square root of a * K
RECURSIVE Newton(_, _)
Newton(a, xk) ==
  IF a <= 0 \/ xk <= 0 THEN 0
  ELSE LET y == (xk + MulDivQR(a, K, xk)[1]) \div 2
       IN  IF y >= xk THEN xk ELSE Newton(a, y)

Min(S) == CHOOSE x \in S : \A y \in S : x <= y

\* a first iterate above the root: (a / t + K * t) / 2 >= sqrt(a * K) for every t > 0
NewtonStart(a) ==
  IF a < K
  THEN Min({(a * t + K \div t) \div 2 + 1 : t \in {1, 10, 100}})
  ELSE Min({(a \div t + K * t) \div 2 + 1 : t \in {1, 10, 100}})

SqrtRound(a, r) ==
  IF r <= 0 THEN 0
  ELSE LET qr == MulDivQR(a, K, r)
       IN  IF qr[1] - r >= 2 \/ (qr[1] - r = 1 /\ qr[2] > 0) THEN r + 1 ELSE r

\* math.sqrt, correctly rounded, for a >= 0
FSqrt(a) == IF a <= 0 THEN 0 ELSE SqrtRound(a, Newton(a, NewtonStart(a)))

\* numpy.sqrt: nan for a negative argument
NpSqrt(a) == IF a = NaN \/ a < 0 THEN NaN ELSE FSqrt(a)

\* math.floor, math.ceil (as the float of the integer they return)
Floor(x) == (x \div K) * K
Ceil(x) == -Floor(-x)

\* Python's round(x, ndigits) and the format specs .0f, .1f, .3f: the nearest
\* multiple of 10^-ndigits, ties to even; nan stays nan
PyRound(x, ndigits) ==
  IF x = NaN THEN NaN
  ELSE LET step == K \div (10 ^ ndigits)
       IN  MulDiv(x, 1, step) * step

\* float arithmetic of the script, where a nan operand gives nan
NMul(a, b) == IF a = NaN \/ b = NaN THEN NaN ELSE FMul(a, b)

---------------------------------------------------------------------------
(* Physical and unit conversions *)

M2_TO_FT2 == 1076390      \* 10.7639
M_TO_IN == 3937010        \* 39.3701
M_TO_FT == 328084         \* 3.28084
PI == 314159              \* math.pi

---------------------------------------------------------------------------
(* parachute_gui.py: core computations *)

\* S = (2 g m) / (rho C_d V^2)
area_of(g, m, rho_air, Cd, V) ==
  FDiv(FMul(FMul(2 * K, g), m), FMul(FMul(FMul(rho_air, Cd), V), V))

\* D = sqrt(4 S / pi)
diameter_of(S) == FSqrt(FDiv(FMul(4 * K, S), PI))

compute_single(g, m, rho_air, Cd, V) ==
  IF \E x \in {g, m, rho_air, Cd, V} : x <= 0
  THEN [raised |-> "ValueError: All inputs must be positive."]
  ELSE LET S_total == area_of(g, m, rho_air, Cd, V)
       IN  [raised |-> "none", S_total_m2 |-> S_total, D_total_m |-> diameter_of(S_total)]

Cd_avg_of(Cd_drogue, Cd_main) == FMul(K \div 2, Cd_drogue + Cd_main)

S_drogue_of(S_total, drogue_fraction) == FMul(S_total, drogue_fraction)

S_main_of(S_total, drogue_fraction) == FMul(S_total, K - drogue_fraction)

compute_dual(g, m, rho_air, Cd_drogue, Cd_main, V, drogue_fraction) ==
  IF \E x \in {g, m, rho_air, Cd_drogue, Cd_main, V} : x <= 0
  THEN [raised |-> "ValueError: All inputs must be positive."]
  ELSE IF ~(K \div 100 <= drogue_fraction /\ drogue_fraction <= (9 * K) \div 10)
  THEN [raised |-> "ValueError: Drogue fraction should be in [0.01, 0.90]."]
  ELSE LET S_total == area_of(g, m, rho_air, Cd_avg_of(Cd_drogue, Cd_main), V)
           S_drogue == S_drogue_of(S_total, drogue_fraction)
           S_main == S_main_of(S_total, drogue_fraction)
       IN  [raised |-> "none",
            S_total_m2 |-> S_total,
            D_total_m |-> diameter_of(S_total),
            S_drogue_m2 |-> S_drogue,
            D_drogue_m |-> diameter_of(S_drogue),
            S_main_m2 |-> S_main,
            D_main_m |-> diameter_of(S_main)]

---------------------------------------------------------------------------
(* parachute_gui.py: rounding helpers *)

FootRounding ==
  [NONE |-> "None", NEAREST |-> "Nearest whole ft",
   UP |-> "Ceil (next ft)", DOWN |-> "Floor (whole ft)"]

RoundingModes ==
  {FootRounding.NONE, FootRounding.NEAREST, FootRounding.UP, FootRounding.DOWN}

\* round_feet with math.floor in the place of math.ceil
round_feet_up_as_floor(value_ft, mode) ==
  IF mode = FootRounding.NEAREST THEN PyRound(value_ft, 0)
  ELSE IF mode = FootRounding.UP THEN Floor(value_ft)
  ELSE IF mode = FootRounding.DOWN THEN Floor(value_ft)
  ELSE value_ft

\* round_feet with int(value_ft) + 1 ("next ft") in the place of math.ceil
round_feet_up_as_next(value_ft, mode) ==
  IF mode = FootRounding.NEAREST THEN PyRound(value_ft, 0)
  ELSE IF mode = FootRounding.UP THEN Floor(value_ft) + K
  ELSE IF mode = FootRounding.DOWN THEN Floor(value_ft)
  ELSE value_ft

round_feet(value_ft, mode) ==
  IF mode = FootRounding.NEAREST THEN PyRound(value_ft, 0)
  ELSE IF mode = FootRounding.UP THEN Ceil(value_ft)
  ELSE IF mode = FootRounding.DOWN THEN Floor(value_ft)
  ELSE value_ft

---------------------------------------------------------------------------
(* parachute_gui.py: ParachuteGUI._add_row *)

\* diam_ft_sf: the diameter in feet, scaled by sqrt(safety)
diam_ft_sf_of(diam_m, safety) == FMul(FMul(diam_m, M_TO_FT), FSqrt(safety))

\* the text of the last column: a number of feet or of inches
rounded_display_of(diam_m, rounding_mode, safety) ==
  LET diam_ft_sf == diam_ft_sf_of(diam_m, safety)
  IN  IF diam_ft_sf >= K
      THEN [unit |-> "ft", value |-> PyRound(round_feet(diam_ft_sf, rounding_mode), 0)]
      ELSE [unit |-> "in",
            value |-> PyRound(PyRound(FMul(FMul(diam_m, M_TO_IN), FSqrt(safety)), 0), 0)]

\* the six items of the row the call appends to the table
add_row(stage, area_m2, diam_m, rounding_mode, safety) ==
  [stage |-> stage,
   area_m2 |-> PyRound(area_m2, 3),
   area_ft2 |-> PyRound(FMul(area_m2, M2_TO_FT2), 3),
   diam_m |-> PyRound(diam_m, 3),
   diam_in |-> PyRound(FMul(diam_m, M_TO_IN), 1),
   rounded_display |-> rounded_display_of(diam_m, rounding_mode, safety)]

populate_single(res, safety, rounding_mode) ==
  <<add_row("Total", res.S_total_m2, res.D_total_m, rounding_mode, safety)>>

populate_dual(res, safety, rounding_mode) ==
  <<add_row("Total", res.S_total_m2, res.D_total_m, rounding_mode, safety),
    add_row("Drogue", res.S_drogue_m2, res.D_drogue_m, rounding_mode, safety),
    add_row("Main", res.S_main_m2, res.D_main_m, rounding_mode, safety)>>

---------------------------------------------------------------------------
(* parachute_area.py: the prompt-driven script *)

m2_to_ft2 == 1076390      \* 10.7639
m_to_inch == 3937010      \* 39.3701
m_to_ft == 328084         \* 3.28084

\* "if D_ft > 1: D_ft = round(D_ft)"
script_foot_rounding(D_ft) ==
  IF D_ft # NaN /\ D_ft > K THEN PyRound(D_ft, 0) ELSE D_ft

\* the purchase size a run prints last: always a number of feet
script_purchase(D_ft_sf) == [unit |-> "ft", value |-> D_ft_sf]

\* S_main cut to three decimals instead of rounded
script_S_main_truncated(S_total) ==
  (FMul(S_total, (8 * K) \div 10) \div (K \div 1000)) * (K \div 1000)

\* S_main = round(S_total * 0.8, 3)
script_S_main(S_total) == PyRound(FMul(S_total, (8 * K) \div 10), 3)

\* what the single branch prints, or the exception that ends the run
script_single(safety_factor, g, m, rho_air, C_d, V) ==
  IF FMul(FMul(FMul(rho_air, C_d), V), V) = 0
  THEN [raised |-> "ZeroDivisionError"]
  ELSE LET S_total == PyRound(area_of(g, m, rho_air, C_d, V), 3)
           D_total == PyRound(NpSqrt(FDiv(FMul(S_total, 4 * K), PI)), 1)
           S_total_ft2 == PyRound(FMul(S_total, m2_to_ft2), 3)
           D_total_in == PyRound(NMul(D_total, m_to_inch), 1)
           D_total_ft == script_foot_rounding(PyRound(NMul(D_total, m_to_ft), 1))
       IN  [raised |-> "none",
            S_total |-> S_total,
            S_total_ft2 |-> S_total_ft2,
            S_total_ft2_sf |-> PyRound(FMul(safety_factor, S_total_ft2), 3),
            D_total |-> D_total,
            D_total_in |-> D_total_in,
            D_total_ft |-> D_total_ft,
            D_total_ft_sf |-> PyRound(NMul(safety_factor, D_total_ft), 3)]

\* what the dual branch prints, or the exception that ends the run
script_dual(safety_factor, g, m, rho_air, C_d_drogue, C_d_main, V) ==
  IF FMul(FMul(FMul(rho_air, FDiv(C_d_drogue + C_d_main, 2 * K)), V), V) = 0
  THEN [raised |-> "ZeroDivisionError"]
  ELSE LET C_d_avg == FDiv(C_d_drogue + C_d_main, 2 * K)
           S_total == PyRound(area_of(g, m, rho_air, C_d_avg, V), 3)
           D_total == PyRound(NpSqrt(FDiv(FMul(S_total, 4 * K), PI)), 1)
           S_drogue == PyRound(FMul(S_total, (2 * K) \div 10), 3)
           D_drogue == PyRound(NMul(D_total, (2 * K) \div 10), 1)
           S_main == script_S_main(S_total)
           D_main == PyRound(NMul(D_total, (8 * K) \div 10), 1)
           S_total_ft2 == PyRound(FMul(S_total, m2_to_ft2), 3)
           S_drogue_ft2 == PyRound(FMul(S_drogue, m2_to_ft2), 3)
           D_drogue_ft == script_foot_rounding(PyRound(NMul(D_drogue, m_to_ft), 1))
           S_main_ft2 == PyRound(FMul(S_main, m2_to_ft2), 3)
           D_main_ft == script_foot_rounding(PyRound(NMul(D_main, m_to_ft), 1))
       IN  [raised |-> "none",
            S_total |-> S_total,
            S_total_ft2 |-> S_total_ft2,
            S_total_ft2_sf |-> PyRound(FMul(safety_factor, S_total_ft2), 3),
            D_total |-> D_total,
            S_drogue |-> S_drogue,
            S_drogue_ft2 |-> S_drogue_ft2,
            S_drogue_ft2_sf |-> PyRound(FMul(safety_factor, S_drogue_ft2), 3),
            D_drogue |-> D_drogue,
            D_drogue_in |-> PyRound(NMul(D_drogue, m_to_inch), 1),
            D_drogue_ft |-> D_drogue_ft,
            D_drogue_ft_sf |-> PyRound(NMul(safety_factor, D_drogue_ft), 1),
            S_main |-> S_main,
            S_main_ft2 |-> S_main_ft2,
            S_main_ft2_sf |-> PyRound(FMul(safety_factor, S_main_ft2), 3),
            D_main |-> D_main,
            D_main_in |-> PyRound(NMul(D_main, m_to_inch), 1),
            D_main_ft |-> D_main_ft,
            D_main_ft_sf |-> PyRound(NMul(safety_factor, D_main_ft), 1)]

---------------------------------------------------------------------------
(* The calls the model makes of the functions and of the script *)

MaxVSteps == 3              \* descent rates 0, 5, .. 5 * MaxVSteps m/s
MaxDiamSteps == 14          \* diameters of 2, 4, .. 2 * MaxDiamSteps inches
MaxQuarterFeet == 12        \* lengths of -MaxQuarterFeet/4 .. MaxQuarterFeet/4 ft

GChoices == {-981000, 0, 981000}
MChoices == {-5 * K, 0, K \div 2, 10 * K}
RhoChoices == {0, 122500}
CdChoices == {-120000, 0, 120000}
CdMainChoices == {0, 80000, 120000}
VChoices == {5 * K * i : i \in 0..MaxVSteps}
FractionChoices ==
  {0, K \div 100 - 1, K \div 100, (2 * K) \div 10, K \div 2,
   (9 * K) \div 10, (9 * K) \div 10 + 1, K}
SafetyChoices == {K, 110000, 121000}
DiamChoices == {5080 * i : i \in 1..MaxDiamSteps} \cup {30450}
FeetChoices == {(K \div 4) * i : i \in (-MaxQuarterFeet)..MaxQuarterFeet}

SingleCalls ==
  [fn : {"compute_single"}, g : GChoices, m : MChoices, rho_air : RhoChoices,
   Cd : CdChoices, V : VChoices]

DualCalls ==
  [fn : {"compute_dual"}, g : GChoices, m : MChoices, rho_air : RhoChoices,
   Cd_drogue : CdChoices, Cd_main : CdMainChoices, V : VChoices,
   drogue_fraction : FractionChoices]

RoundFeetCalls == [fn : {"round_feet"}, value_ft : FeetChoices, mode : RoundingModes]

AddRowCalls ==
  [fn : {"add_row"}, stage : {"Total"}, diam_m : DiamChoices,
   rounding_mode : RoundingModes, safety : SafetyChoices]

ScriptSingleRuns ==
  [fn : {"script_single"}, safety_factor : SafetyChoices, g : GChoices, m : MChoices,
   rho_air : RhoChoices, C_d : CdChoices, V : VChoices]

ScriptDualRuns ==
  [fn : {"script_dual"}, safety_factor : SafetyChoices, g : GChoices, m : MChoices,
   rho_air : RhoChoices, C_d_drogue : CdChoices, C_d_main : CdMainChoices, V : VChoices]

Calls ==
  SingleCalls \cup DualCalls \cup RoundFeetCalls \cup AddRowCalls
    \cup ScriptSingleRuns \cup ScriptDualRuns

\* the area of the circle of diameter d, for the row's area column
circle_area(d) == FDiv(FMul(PI, FMul(d, d)), 4 * K)

CallComputeSingle ==
  /\ pc = "ready" /\ call.fn = "compute_single"
  /\ out' = compute_single(call.g, call.m, call.rho_air, call.Cd, call.V)
  /\ pc' = "done"
  /\ UNCHANGED <<call, guiVars>>

CallComputeDual ==
  /\ pc = "ready" /\ call.fn = "compute_dual"
  /\ out' = compute_dual(call.g, call.m, call.rho_air, call.Cd_drogue, call.Cd_main,
                         call.V, call.drogue_fraction)
  /\ pc' = "done"
  /\ UNCHANGED <<call, guiVars>>

CallRoundFeet ==
  /\ pc = "ready" /\ call.fn = "round_feet"
  /\ out' = [raised |-> "none", value |-> round_feet(call.value_ft, call.mode)]
  /\ pc' = "done"
  /\ UNCHANGED <<call, guiVars>>

CallAddRow ==
  /\ pc = "ready" /\ call.fn = "add_row"
  /\ out' = [raised |-> "none",
             row |-> add_row(call.stage, circle_area(call.diam_m), call.diam_m,
                             call.rounding_mode, call.safety)]
  /\ pc' = "done"
  /\ UNCHANGED <<call, guiVars>>

RunScriptSingle ==
  /\ pc = "ready" /\ call.fn = "script_single"
  /\ out' = script_single(call.safety_factor, call.g, call.m, call.rho_air, call.C_d,
                          call.V)
  /\ pc' = "done"
  /\ UNCHANGED <<call, guiVars>>

RunScriptDual ==
  /\ pc = "ready" /\ call.fn = "script_dual"
  /\ out' = script_dual(call.safety_factor, call.g, call.m, call.rho_air,
                        call.C_d_drogue, call.C_d_main, call.V)
  /\ pc' = "done"
  /\ UNCHANGED <<call, guiVars>>

---------------------------------------------------------------------------
(* parachute_gui.py: the window *)

SpinNames ==
  {"safety", "drogue_frac", "g", "m", "rho", "cd", "cd_drogue", "cd_main", "v"}

\* LabeledSpin(minimum, maximum, step, value, decimals) as _build_ui makes them
LabeledSpin ==
  [safety      |-> [minimum |-> K, maximum |-> 5 * K, decimals |-> 2, value |-> 110000],
   drogue_frac |-> [minimum |-> K \div 100, maximum |-> (9 * K) \div 10, decimals |-> 2,
                    value |-> (2 * K) \div 10],
   g           |-> [minimum |-> K, maximum |-> 20 * K, decimals |-> 3, value |-> 981000],
   m           |-> [minimum |-> K \div 100, maximum |-> 1000 * K, decimals |-> 3,
                    value |-> 10 * K],
   rho         |-> [minimum |-> K \div 10, maximum |-> 2 * K, decimals |-> 3,
                    value |-> 122500],
   cd          |-> [minimum |-> (2 * K) \div 10, maximum |-> (25 * K) \div 10,
                    decimals |-> 3, value |-> 120000],
   cd_drogue   |-> [minimum |-> (2 * K) \div 10, maximum |-> (25 * K) \div 10,
                    decimals |-> 3, value |-> 120000],
   cd_main     |-> [minimum |-> (2 * K) \div 10, maximum |-> (25 * K) \div 10,
                    decimals |-> 3, value |-> 120000],
   v           |-> [minimum |-> K \div 2, maximum |-> 30 * K, decimals |-> 3,
                    value |-> 10 * K]]

\* QDoubleSpinBox.setValue: the value rounded to the box's decimals and kept
\* within the range setRange gave it
setValue(name, value) ==
  LET box == LabeledSpin[name]
      v == PyRound(value, box.decimals)
  IN  IF v < box.minimum THEN box.minimum
      ELSE IF v > box.maximum THEN box.maximum ELSE v

\* the values the model's user gives the boxes
UserValues ==
  [name \in SpinNames |->
     CASE name = "v" -> VChoices
       [] name = "m" -> {K}
       [] OTHER -> {}]

sync_mode(mode) ==
  [cd_row_single |-> (mode = "single"),
   cd_row_dual |-> ~(mode = "single"),
   drogue_frac_spin |-> ~(mode = "single")]

\* a hidden or disabled box takes no input
Editable(name) ==
  CASE name = "cd" -> shown.cd_row_single
    [] name \in {"cd_drogue", "cd_main"} -> shown.cd_row_dual
    [] name = "drogue_frac" -> shown.drogue_frac_spin
    [] OTHER -> TRUE

None == "<None>"
ADVISORY ==
  "Advisory: V >= 15 m/s is on the high side for safe recovery. Consider a lower target if structurally permissible."

\* warn_label after _set_warning(text): text or ""
set_warning(text) == IF text = None \/ text = "" THEN "" ELSE text

\* _on_compute without its _set_warning(None)
warning_kept(label) == label

\* warn_label after the _set_warning(None) that starts a computation
warning_cleared(label) == set_warning(None)

\* _on_compute without its setRowCount(0)
rows_kept(rows) == rows

\* the table after setRowCount(0)
rows_cleared(rows) == <<>>

GuiInit ==
  /\ mode_combo = "single"
  /\ round_combo = FootRounding.NONE
  /\ spin = [name \in SpinNames |-> setValue(name, LabeledSpin[name].value)]
  /\ shown = sync_mode("single")
  /\ warn_label = ""
  /\ table = <<>>
  /\ last = [ran |-> FALSE, mode |-> "single", rounding_mode |-> FootRounding.NONE,
             spin |-> [name \in SpinNames |-> setValue(name, LabeledSpin[name].value)],
             error |-> "", warn_before |-> "", rows_before |-> 0]

\* the user picks a deployment mode: currentTextChanged runs _sync_mode
SetMode(mode) ==
  /\ mode_combo' = mode
  /\ shown' = sync_mode(mode)
  /\ UNCHANGED <<round_combo, spin, warn_label, table, last, callVars>>

\* the user picks a diameter rounding
SetRounding(mode) ==
  /\ round_combo' = mode
  /\ UNCHANGED <<mode_combo, spin, shown, warn_label, table, last, callVars>>

\* the user edits a spin box
SetSpin(name, value) ==
  /\ Editable(name)
  /\ spin' = [spin EXCEPT ![name] = setValue(name, value)]
  /\ UNCHANGED <<mode_combo, round_combo, shown, warn_label, table, last, callVars>>

\* the Compute button: _on_compute, to its end or to its except clause
on_compute ==
  LET mode == mode_combo
      safety == spin["safety"]
      rounding_mode == round_combo
      V == spin["v"]
      res == IF mode = "single"
             THEN compute_single(spin["g"], spin["m"], spin["rho"], spin["cd"], V)
             ELSE compute_dual(spin["g"], spin["m"], spin["rho"], spin["cd_drogue"],
                               spin["cd_main"], V, spin["drogue_frac"])
      rows == IF res.raised # "none" THEN <<>>
              ELSE IF mode = "single" THEN populate_single(res, safety, rounding_mode)
              ELSE populate_dual(res, safety, rounding_mode)
  IN  /\ warn_label' = IF res.raised = "none" /\ V >= 15 * K
                       THEN set_warning(ADVISORY)
                       ELSE warning_cleared(warn_label)
      /\ table' = rows_cleared(table) \o rows
      /\ last' = [ran |-> TRUE, mode |-> mode, rounding_mode |-> rounding_mode,
                  spin |-> spin, error |-> IF res.raised = "none" THEN "" ELSE res.raised,
                  warn_before |-> warn_label, rows_before |-> Len(table)]
      /\ UNCHANGED <<mode_combo, round_combo, spin, shown, callVars>>

---------------------------------------------------------------------------
(* Specifications *)

\* the functions and the script, each called once on every input of the sets
Init ==
  /\ call \in Calls
  /\ out = [raised |-> "pending"]
  /\ pc = "ready"
  /\ GuiInit

Next ==
  \/ CallComputeSingle
  \/ CallComputeDual
  \/ CallRoundFeet
  \/ CallAddRow
  \/ RunScriptSingle
  \/ RunScriptDual

Spec == Init /\ [][Next]_vars

\* the window and its user
InitGUI ==
  /\ call = [fn |-> "none"]
  /\ out = [raised |-> "pending"]
  /\ pc = "ready"
  /\ GuiInit

NextGUI ==
  \/ \E mode \in {"single", "dual"} : SetMode(mode)
  \/ \E mode \in RoundingModes : SetRounding(mode)
  \/ \E name \in SpinNames : \E value \in UserValues[name] : SetSpin(name, value)
  \/ on_compute

SpecGUI == InitGUI /\ [][NextGUI]_vars

---------------------------------------------------------------------------
(* Properties *)

\* the call's input is invalid: a required number is not positive, or the
\* drogue fraction is outside [0.01, 0.90]
Invalid(c) ==
  CASE c.fn = "compute_single" -> \E x \in {c.g, c.m, c.rho_air, c.Cd, c.V} : x <= 0
    [] c.fn = "compute_dual" ->
         \/ \E x \in {c.g, c.m, c.rho_air, c.Cd_drogue, c.Cd_main, c.V} : x <= 0
         \/ c.drogue_fraction < K \div 100
         \/ c.drogue_fraction > (9 * K) \div 10
    [] c.fn = "script_single" -> \E x \in {c.g, c.m, c.rho_air, c.C_d, c.V} : x <= 0
    [] c.fn = "script_dual" ->
         \E x \in {c.g, c.m, c.rho_air, c.C_d_drogue, c.C_d_main, c.V} : x <= 0
    [] OTHER -> FALSE

Sizing == {"compute_single", "compute_dual", "script_single", "script_dual"}

\* C1: every sizing computation (the GUI's two functions and the script's two
\* branches) raises an error and produces no result exactly when an input is
\* invalid, and returns a complete result otherwise.
C1_RejectsInvalidInput ==
  (pc = "done" /\ call.fn \in Sizing) =>
    /\ (out.raised # "none") <=> Invalid(call)
    /\ (out.raised # "none") => DOMAIN out = {"raised"}

\* The same statement for the GUI's compute_single and compute_dual alone.
EngineRejectsInvalidInput ==
  (pc = "done" /\ call.fn \in {"compute_single", "compute_dual"}) =>
    /\ (out.raised # "none") <=> Invalid(call)
    /\ (out.raised # "none") => DOMAIN out = {"raised"}
    /\ (out.raised = "none") => \A f \in DOMAIN out \ {"raised"} : out[f] > 0

\* C2: wherever a safety-factored diameter is reported, it is the diameter
\* times sqrt(factor): in the table row, and in the script's "with safety
\* factor" diameter (rounded as the script rounds it), single and dual.
C2_SafetyScalesDiameterBySqrt ==
  pc = "done" =>
    /\ call.fn = "add_row" =>
         /\ diam_ft_sf_of(call.diam_m, call.safety)
              = FMul(FMul(call.diam_m, M_TO_FT), FSqrt(call.safety))
         /\ call.safety = 121000 =>
              diam_ft_sf_of(call.diam_m, call.safety)
                = FMul(FMul(call.diam_m, M_TO_FT), 110000)
    /\ (call.fn = "script_single" /\ ~Invalid(call)) =>
         out.D_total_ft_sf = PyRound(FMul(out.D_total_ft, FSqrt(call.safety_factor)), 3)
    /\ (call.fn = "script_dual" /\ ~Invalid(call)) =>
         /\ out.D_drogue_ft_sf
              = PyRound(FMul(out.D_drogue_ft, FSqrt(call.safety_factor)), 1)
         /\ out.D_main_ft_sf
              = PyRound(FMul(out.D_main_ft, FSqrt(call.safety_factor)), 1)

\* The same statement for the table row alone: a factor of 1.21 makes the
\* diameter 1.1 times as long.
RowScalesDiameterBySqrt ==
  (pc = "done" /\ call.fn = "add_row" /\ call.safety = 121000) =>
    diam_ft_sf_of(call.diam_m, call.safety) = FMul(FMul(call.diam_m, M_TO_FT), 110000)

\* C3: in dual mode each sub-diameter is the circle-area inversion of its own
\* sub-area, sqrt(4 * area / pi) (rounded as the path rounds its diameters),
\* in the GUI's compute_dual and in the script.
C3_SubDiametersFromSubAreas ==
  pc = "done" =>
    /\ (call.fn = "compute_dual" /\ out.raised = "none") =>
         /\ out.D_drogue_m = diameter_of(out.S_drogue_m2)
         /\ out.D_main_m = diameter_of(out.S_main_m2)
    /\ (call.fn = "script_dual" /\ ~Invalid(call)) =>
         /\ out.D_drogue = PyRound(diameter_of(out.S_drogue), 1)
         /\ out.D_main = PyRound(diameter_of(out.S_main), 1)

\* The same statement for compute_dual alone.
EngineSubDiametersFromSubAreas ==
  (pc = "done" /\ call.fn = "compute_dual" /\ out.raised = "none") =>
    /\ out.D_drogue_m = diameter_of(out.S_drogue_m2)
    /\ out.D_main_m = diameter_of(out.S_main_m2)

\* C4: the purchase size is reported in whole inches when the safety-factored
\* diameter is below 1.0 ft and in feet when it is 1.0 ft or more, in the
\* table row and in the script's output.
C4_DisplayBranchesAtOneFoot ==
  pc = "done" =>
    /\ call.fn = "add_row" =>
         LET d == diam_ft_sf_of(call.diam_m, call.safety)
             shown_size == out.row.rounded_display
         IN  /\ d < K => /\ shown_size.unit = "in"
                         /\ shown_size.value % K = 0
                         /\ shown_size.value
                              = PyRound(FMul(FMul(call.diam_m, M_TO_IN), FSqrt(call.safety)), 0)
             /\ d >= K => shown_size.unit = "ft"
    /\ (call.fn = "script_single" /\ ~Invalid(call)) =>
         LET shown_size == script_purchase(out.D_total_ft_sf)
         IN  /\ shown_size.value < K => shown_size.unit = "in" /\ shown_size.value % K = 0
             /\ shown_size.value >= K => shown_size.unit = "ft"

\* The same statement for the table row alone.
RowBranchesAtOneFoot ==
  (pc = "done" /\ call.fn = "add_row") =>
    LET d == diam_ft_sf_of(call.diam_m, call.safety)
    IN  /\ d < K <=> out.row.rounded_display.unit = "in"
        /\ d >= K <=> out.row.rounded_display.unit = "ft"
        /\ out.row.rounded_display.value % K = 0

C6_NonePassesThrough ==
  (pc = "done" /\ call.fn = "add_row" /\ call.rounding_mode = FootRounding.NONE
     /\ diam_ft_sf_of(call.diam_m, call.safety) >= K) =>
    /\ out.row.rounded_display.unit = "ft"
    /\ out.row.rounded_display.value = diam_ft_sf_of(call.diam_m, call.safety)

\* C7: under Ceiling, a safety-factored diameter d >= 1.0 ft is shown as the
\* whole number of feet r with d <= r < d + 1, which is round_feet's value.
C7_CeilingNeverUndersizes ==
  (pc = "done" /\ call.fn = "add_row" /\ call.rounding_mode = FootRounding.UP
     /\ diam_ft_sf_of(call.diam_m, call.safety) >= K) =>
    LET d == diam_ft_sf_of(call.diam_m, call.safety)
        r == out.row.rounded_display.value
    IN  /\ out.row.rounded_display.unit = "ft"
        /\ r % K = 0
        /\ d <= r /\ r < d + K
        /\ r = round_feet(d, FootRounding.UP)

\* a row under Ceiling whose diameter is no whole number of feet and is shown
\* as the next whole foot
C7_Witness ==
  /\ pc = "done" /\ call.fn = "add_row" /\ call.rounding_mode = FootRounding.UP
  /\ diam_ft_sf_of(call.diam_m, call.safety) > K
  /\ diam_ft_sf_of(call.diam_m, call.safety) % K # 0
  /\ out.row.rounded_display.unit = "ft"
  /\ out.row.rounded_display.value > diam_ft_sf_of(call.diam_m, call.safety)

\* C8: the advisory is shown exactly when the most recent Compute succeeded
\* with V >= 15; its rows are then in the table and no error was raised; an
\* advisory of an earlier Compute does not outlive a Compute with V < 15.
C8_AdvisoryIffLastComputeHighV ==
  /\ warn_label \in {"", ADVISORY}
  /\ (warn_label = ADVISORY)
       <=> (last.ran /\ last.error = "" /\ last.spin["v"] >= 15 * K)
  /\ warn_label = ADVISORY =>
       /\ last.error = ""
       /\ Len(table) = IF last.mode = "single" THEN 1 ELSE 3

\* a Compute with V < 15 that found the advisory of an earlier one and cleared it
C8_Witness ==
  /\ last.ran /\ last.error = ""
  /\ last.warn_before = ADVISORY
  /\ last.spin["v"] < 15 * K
  /\ warn_label = ""
  /\ Len(table) >= 1

\* the rows the most recent Compute made of what it read
RowsOfLast ==
  IF last.mode = "single"
  THEN populate_single(
         compute_single(last.spin["g"], last.spin["m"], last.spin["rho"],
                        last.spin["cd"], last.spin["v"]),
         last.spin["safety"], last.rounding_mode)
  ELSE populate_dual(
         compute_dual(last.spin["g"], last.spin["m"], last.spin["rho"],
                      last.spin["cd_drogue"], last.spin["cd_main"], last.spin["v"],
                      last.spin["drogue_frac"]),
         last.spin["safety"], last.rounding_mode)

\* C9: round_feet returns a whole-foot value unchanged under every policy, and
\* rounding the result of a rounding (policy not None) again, under any
\* policy, changes nothing.
C9_RoundFeetIdempotent ==
  (pc = "done" /\ call.fn = "round_feet") =>
    /\ call.value_ft % K = 0 => out.value = call.value_ft
    /\ call.mode # FootRounding.NONE =>
         /\ out.value % K = 0
         /\ \A q \in RoundingModes : round_feet(out.value, q) = out.value

\* a rounding that changed its argument, and whose result no policy changes
C9_Witness ==
  /\ pc = "done" /\ call.fn = "round_feet"
  /\ call.mode = FootRounding.UP
  /\ call.value_ft % K # 0
  /\ out.value # call.value_ft
  /\ \A q \in RoundingModes : round_feet(out.value, q) = out.value

\* C10: the table holds exactly the rows of the most recent Compute: one row
\* "Total" after a Compute in single mode, the rows "Total", "Drogue", "Main"
\* after one in dual mode, none (and no advisory) after one that raised.
C10_TableHoldsLastComputeOnly ==
  IF ~last.ran THEN table = <<>>
  ELSE IF last.error # "" THEN table = <<>> /\ warn_label = ""
  ELSE /\ table = RowsOfLast
       /\ last.mode = "single" => Len(table) = 1 /\ table[1].stage = "Total"
       /\ last.mode = "dual" =>
            /\ Len(table) = 3
            /\ <<table[1].stage, table[2].stage, table[3].stage>>
                 = <<"Total", "Drogue", "Main">>

\* a Compute in single mode that found the three rows of a dual Compute and
\* left its one row, while the mode was changed again afterwards
C10_Witness ==
  /\ last.ran /\ last.mode = "single" /\ last.rows_before = 3
  /\ Len(table) = 1 /\ table[1].stage = "Total"
  /\ mode_combo = "dual"

====
